---- MODULE Spec2Model ----
(***************************************************************************)
(* A model of chuyiting/MCC-Pytorch:                                       *)
(*   - utils/MCConvBuilder.py : ConvolutionBuilder (caches, reset,         *)
(*     forward) and PointHierarchy (construction loop);                    *)
(*   - ModelNet/ModelNet.py   : the static-graph training driver;          *)
(*   - pt_mcc/ops.py          : the operator binding module.               *)
(* The specifications share the variables; each leaves the other           *)
(* components idle: SpecConv, SpecHier, SpecDriver (SpecTermination is the *)
(* driver with fairness), SpecOps.                                         *)
(*                                                                         *)
(* Strings that the code builds with str() and '+' are sequences of        *)
(* one-character strings, so that concatenation is real concatenation.     *)
(* Floats are integers counting hundredths (25 is 0.25).                   *)
(* The native kernels behind pt_mcc.ops are not part of the sources; a     *)
(* call of one is an entry in a log of operator invocations.               *)
(***************************************************************************)
EXTENDS Integers, Sequences, FiniteSets, TLC

VARIABLES
    \* ---- ConvolutionBuilder (MCConvBuilder.py 137-421)
    cacheGrids_,    \* self.cacheGrids_  : set of keys present in the dict
    cacheNeighs_,   \* self.cacheNeighs_
    cachePDFs_,     \* self.cachePDFs_
    conf,           \* the attributes stored by __init__ (lines 203-214)
    params,         \* weights/biases: padded width and the values
    last,           \* the last call made on the builder and what it did
    computedGrid,   \* keys whose grid a forward() computed since the last reset()
    computedNeighs, \* same for find_neighbors
    computedPDF,    \* same for the PDF
    resetPending,   \* a reset() happened and no forward() since
    \* ---- PointHierarchy.__init__ (MCConvBuilder.py 57-131)
    hpc,            \* where the constructor is: "start", "loop", "done" ("idle": unused)
    hargs,          \* the constructor's arguments
    ph,             \* self: the attributes of the hierarchy under construction
    hloc,           \* the constructor's locals
    hops,           \* the operators invoked so far, with their arguments
    \* ---- the static-graph driver (ModelNet.py 58-295)
    dpc,            \* where the driver is: "start", "epochs", "train", "trained",
                    \* "test", "done" ("idle": unused)
    dargs,          \* args, the two dataset sizes and the interpreter's division
    drv,            \* the driver's own variables (numBatchesXEpoch, step, epoch, ...)
    sess,           \* the session: global_step, the metric's accumulators, the last feed
    data,           \* the two dataset iterators: batches left in the current pass
    outp,           \* what was written: counts of log.txt's lines, the line written
                    \* last, the checkpoints
    obs,            \* counted for the properties: batches done in this pass, the
                    \* losses since the last multiple of ten batches, the losses of
                    \* the test batches since the epoch began, the models and the
                    \* correct predictions of the same batches, the training
                    \* batches of the whole run
    \* ---- the operator binding module (pt_mcc/ops.py)
    opc,            \* mymuladd's autograd: "start", "forwarded", "backwarded"
                    \* ("idle": unused)
    oargs,          \* the inputs of the mymuladd call and which gradients are asked
    octx,           \* ctx: needs_input_grad and saved_tensors
    oret            \* what came back: backward's triple, the abstract compute_aabb's
                    \* shapes, the outcome of loading MCConvBuilder

convVars == <<cacheGrids_, cacheNeighs_, cachePDFs_, conf, params, last,
              computedGrid, computedNeighs, computedPDF, resetPending>>

hierVars == <<hpc, hargs, ph, hloc, hops>>

drvVars == <<dpc, dargs, drv, sess, data, outp, obs>>

opsVars == <<opc, oargs, octx, oret>>

vars == <<convVars, hierVars, drvVars, opsVars>>

\* ------------------------------------------------------------------ strings

Digit(d) == CASE d = 0 -> "0" [] d = 1 -> "1" [] d = 2 -> "2" [] d = 3 -> "3"
              [] d = 4 -> "4" [] d = 5 -> "5" [] d = 6 -> "6" [] d = 7 -> "7"
              [] d = 8 -> "8" [] d = 9 -> "9"

RECURSIVE StrNat(_)
StrNat(n) == IF n < 10 THEN <<Digit(n)>> ELSE StrNat(n \div 10) \o <<Digit(n % 10)>>

\* str() of a Python int
StrInt(n) == IF n < 0 THEN <<"-">> \o StrNat(0 - n) ELSE StrNat(n)

\* str() of a Python bool
StrBool(b) == IF b THEN <<"T", "r", "u", "e">> ELSE <<"F", "a", "l", "s", "e">>

\* str() of a Python float given in hundredths: 25 -> 0.25, 50 -> 0.5, 100 -> 1.0
StrFloat(h) ==
    LET whole == h \div 100
        frac  == h % 100
    IN  StrNat(whole) \o <<".">> \o
        (IF frac % 10 = 0 THEN <<Digit(frac \div 10)>>
                          ELSE <<Digit(frac \div 10), Digit(frac % 10)>>)

\* ------------------------------------------------------------------ bounds

\* the hierarchies a caller passes to forward(): name, batch size, number of levels
\* (two instances with the same name differ in their batch size)
HierShapes == { [name |-> <<"A">>, nLevels |-> 2], [name |-> <<"B">>, nLevels |-> 1] }
MaxBatchSize == 2
Hierarchies ==
    { [hierarchyName_ |-> s.name, batchSize_ |-> b, nLevels |-> s.nLevels] :
        s \in HierShapes, b \in 1..MaxBatchSize }

\* the constructor arguments the model draws from
KDEWindows == {25}
PointLevels == 0..1
FeatureCounts == 1..2
OutFeatureArgs == {-1} \cup FeatureCounts
ConvRadii == {50}
RelativeFlags == {TRUE}
BlockSizes == {2}
InitDraws == {1, 2}

\* ------------------------------------------------------------------
\* ConvolutionBuilder.__init__

\* line 206: outNumFeatures defaults to inNumFeatures
StoredOutNumFeatures(inNumFeatures, outNumFeatures) ==
    IF outNumFeatures = -1 THEN inNumFeatures ELSE outNumFeatures

\* lines 222-225: computed from the ARGUMENT outNumFeatures, not the stored one
NumOutNeurons(multiFeatureConvs, inNumFeatures, outNumFeatures) ==
    IF multiFeatureConvs THEN inNumFeatures * outNumFeatures ELSE inNumFeatures

\* line 227 (Python // is floor division, as \div is)
NumBlocks(numOutNeurons, blockSize) == (numOutNeurons + blockSize - 1) \div blockSize

\* lines 198-200
EmptyCache == {}

\* lines 203-214
StoredAttributes(a) ==
    [ inPointLevel       |-> a.inPointLevel,
      outPointLevel      |-> a.outPointLevel,
      inNumFeatures      |-> a.inNumFeatures,
      outNumFeatures     |-> StoredOutNumFeatures(a.inNumFeatures, a.outNumFeatures),
      convRadius         |-> a.convRadius,
      multiFeatureConvs_ |-> a.multiFeatureConvs,
      KDEWindow_         |-> a.KDEWindow,
      relativeRadius_    |-> a.relativeRadius,
      usePDF_            |-> a.usePDF,
      useAVG_            |-> a.useAVG ]

\* lines 220-248: the six parameters share one padded width; the weights hold what
\* xavier_normal_ drew (one of InitDraws), the biases are zero
CreateParameters(a, blockSize, draw) ==
    LET numBlocks == NumBlocks(NumOutNeurons(a.multiFeatureConvs, a.inNumFeatures,
                                             a.outNumFeatures), blockSize)
    IN  [ blockSize |-> blockSize,
          width     |-> blockSize * numBlocks,
          weights   |-> draw, weights2 |-> draw, weights3 |-> draw,
          biases    |-> 0, biases2 |-> 0, biases3 |-> 0 ]

ConstructorArgs ==
    [ KDEWindow : KDEWindows, inPointLevel : PointLevels, outPointLevel : PointLevels,
      inNumFeatures : FeatureCounts, outNumFeatures : OutFeatureArgs,
      convRadius : ConvRadii, multiFeatureConvs : BOOLEAN,
      relativeRadius : RelativeFlags, usePDF : BOOLEAN, useAVG : {TRUE} ]

NoCall ==
    [ call |-> "none", hier |-> [hierarchyName_ |-> <<>>, batchSize_ |-> 0, nLevels |-> 0],
      docOutBatchSize |-> 0, outcome |-> "none", ops |-> <<>>,
      keyGrid |-> <<>>, keyNeighs |-> <<>>, keyPDF |-> <<>>,
      afterReset |-> FALSE, gridSeen |-> FALSE, neighSeen |-> FALSE, pdfSeen |-> FALSE ]

InitConv ==
    /\ cacheGrids_ = EmptyCache
    /\ cacheNeighs_ = EmptyCache
    /\ cachePDFs_ = EmptyCache
    /\ \E a \in ConstructorArgs, bs \in BlockSizes, draw \in InitDraws :
          /\ conf = StoredAttributes(a)
          /\ params = CreateParameters(a, bs, draw)
    /\ last = NoCall
    /\ computedGrid = {}
    /\ computedNeighs = {}
    /\ computedPDF = {}
    /\ resetPending = FALSE
    \* no hierarchy is under construction, no driver runs
    /\ hpc = "idle" /\ hargs = <<>> /\ ph = <<>> /\ hloc = <<>> /\ hops = <<>>
    /\ dpc = "idle" /\ dargs = <<>> /\ drv = <<>> /\ sess = <<>> /\ data = <<>>
    /\ outp = <<>> /\ obs = <<>>
    /\ opc = "idle" /\ oargs = <<>> /\ octx = <<>> /\ oret = <<>>

\* ------------------------------------------------------------------
\* ConvolutionBuilder.__compute_dic_keys__ (lines 277-285)

Bar == <<"|">>

\* a grid key that leaves the level out
KeyGridWithoutLevel(inH, inPointLevel, convRadius, relativeRadius) ==
    inH.hierarchyName_ \o Bar \o StrFloat(convRadius) \o Bar \o StrBool(relativeRadius)

KeyGrid(inH, inPointLevel, convRadius, relativeRadius) ==
    inH.hierarchyName_ \o Bar \o StrInt(inPointLevel) \o Bar
        \o StrFloat(convRadius) \o Bar \o StrBool(relativeRadius)

KeyNeighs(keyGrid, outH, outPointLevel) ==
    keyGrid \o Bar \o outH.hierarchyName_ \o Bar \o StrInt(outPointLevel)

KeyPDF(keyNeighs, KDEWindow, usePDF) ==
    keyNeighs \o Bar \o StrFloat(KDEWindow) \o Bar \o StrBool(usePDF)

\* the arguments __compute_dic_keys__ may be called with (names without '|')
KeyCalls ==
    [ inName : {<<"A">>, <<"B">>}, inLevel : {0, 1, 10}, radius : {5, 50},
      relative : BOOLEAN, outName : {<<"A">>, <<"B">>}, outLevel : {0, 1},
      window : {25, 250}, usePDF : BOOLEAN ]

\* the three keys __compute_dic_keys__ returns for such a call (lines 277-285)
ComputeDicKeys(c) ==
    LET keyGrid == KeyGrid([hierarchyName_ |-> c.inName], c.inLevel, c.radius, c.relative)
        keyNeighs == KeyNeighs(keyGrid, [hierarchyName_ |-> c.outName], c.outLevel)
        keyPDF == KeyPDF(keyNeighs, c.window, c.usePDF)
    IN  [keyGrid |-> keyGrid, keyNeighs |-> keyNeighs, keyPDF |-> keyPDF]

KeyTable == [c \in KeyCalls |-> ComputeDicKeys(c)]

\* ------------------------------------------------------------------
\* ConvolutionBuilder.reset (lines 288-293)

ResetCache(cache) == {}

\* a reset that also re-initialises the builder
ResetParamsReinit(p) == [p EXCEPT !.weights = 0, !.weights2 = 0, !.weights3 = 0]

\* reset() assigns the three dicts and nothing else
ResetParams(p) == p

Reset ==
    /\ cacheGrids_' = ResetCache(cacheGrids_)
    /\ cacheNeighs_' = ResetCache(cacheNeighs_)
    /\ cachePDFs_' = ResetCache(cachePDFs_)
    /\ params' = ResetParams(params)
    /\ last' = [NoCall EXCEPT !.call = "reset", !.outcome = "ok"]
    /\ computedGrid' = {}
    /\ computedNeighs' = {}
    /\ computedPDF' = {}
    /\ resetPending' = TRUE
    /\ UNCHANGED <<conf, hierVars, drvVars, opsVars>>

\* ------------------------------------------------------------------
\* ConvolutionBuilder.forward (lines 296-421)

\* line 340: the output hierarchy is the hierarchy passed in
OutPointHierarchy(inPointHierarchy) == inPointHierarchy

\* line 345
BatchSizeMismatch(outH, inH) == outH.batchSize_ # inH.batchSize_

\* the check with the flag tested the wrong way round
FeatureMismatchFlagInverted(c) ==
    (c.multiFeatureConvs_ = TRUE) /\ (c.outNumFeatures # c.inNumFeatures)

\* line 350
FeatureMismatch(c) == (c.multiFeatureConvs_ = FALSE) /\ (c.outNumFeatures # c.inNumFeatures)

\* lines 375, 389, 405: the three stores are commented out, the dicts stay as they are
StoreInCache(cache, key) == cache

\* points_[level] raises IndexError past the last level
LevelMissing(h, level) == level >= h.nLevels

\* What one forward() call does: its outcome and the operators it invoked, in order.
ForwardRun(inH) ==
    LET outH == OutPointHierarchy(inH)
        kg == KeyGrid(inH, conf.inPointLevel, conf.convRadius, conf.relativeRadius_)
        kn == KeyNeighs(kg, outH, conf.outPointLevel)
        kp == KeyPDF(kn, conf.KDEWindow_, conf.usePDF_)
        keys == [keyGrid |-> kg, keyNeighs |-> kn, keyPDF |-> kp]
        Res(outcome, ops) == [outcome |-> outcome, ops |-> ops, keys |-> keys]
        gridHit == kg \in cacheGrids_
        neighHit == kn \in cacheNeighs_
        pdfHit == kp \in cachePDFs_
        opsGrid == IF gridHit THEN <<"sort_features">>
                   ELSE <<"sort_points_step1", "sort_points_step2">>
        opsNeigh == IF neighHit THEN opsGrid ELSE Append(opsGrid, "find_neighbors")
        opsPDF == IF pdfHit THEN opsNeigh
                  ELSE IF conf.usePDF_ THEN Append(opsNeigh, "compute_pdf")
                  ELSE Append(opsNeigh, "torch_ones")
    IN  IF BatchSizeMismatch(outH, inH) THEN Res("RuntimeError_batch", <<>>)
        ELSE IF FeatureMismatch(conf) THEN Res("RuntimeError_features", <<>>)
        ELSE IF ~gridHit /\ LevelMissing(inH, conf.inPointLevel) THEN Res("IndexError", <<>>)
        ELSE IF ~neighHit /\ LevelMissing(outH, conf.outPointLevel)
             THEN Res("IndexError", opsGrid)
        ELSE IF LevelMissing(outH, conf.outPointLevel) THEN Res("IndexError", opsPDF)
        ELSE Res("ok", Append(opsPDF, "spatial_conv"))

Invoked(ops, name) == \E i \in 1..Len(ops) : ops[i] = name

\* forward(inPointHierarchy, inFeatures).  docOut is the batch size of the output
\* hierarchy the docstring (lines 315-316) lets a caller have in mind; the signature
\* (lines 296-298) takes no such argument, so the code never sees it.
Forward(inH, docOut) ==
    LET r == ForwardRun(inH)
    IN  /\ cacheGrids_' = (IF Invoked(r.ops, "sort_points_step1")
                           THEN StoreInCache(cacheGrids_, r.keys.keyGrid) ELSE cacheGrids_)
        /\ cacheNeighs_' = (IF Invoked(r.ops, "find_neighbors")
                            THEN StoreInCache(cacheNeighs_, r.keys.keyNeighs) ELSE cacheNeighs_)
        /\ cachePDFs_' = (IF Invoked(r.ops, "compute_pdf") \/ Invoked(r.ops, "torch_ones")
                          THEN StoreInCache(cachePDFs_, r.keys.keyPDF) ELSE cachePDFs_)
        /\ last' = [ call |-> "forward", hier |-> inH, docOutBatchSize |-> docOut,
                     outcome |-> r.outcome, ops |-> r.ops,
                     keyGrid |-> r.keys.keyGrid, keyNeighs |-> r.keys.keyNeighs,
                     keyPDF |-> r.keys.keyPDF,
                     afterReset |-> resetPending,
                     gridSeen |-> r.keys.keyGrid \in computedGrid,
                     neighSeen |-> r.keys.keyNeighs \in computedNeighs,
                     pdfSeen |-> r.keys.keyPDF \in computedPDF ]
        /\ computedGrid' = (IF Invoked(r.ops, "sort_points_step2")
                            THEN computedGrid \cup {r.keys.keyGrid} ELSE computedGrid)
        /\ computedNeighs' = (IF Invoked(r.ops, "find_neighbors")
                              THEN computedNeighs \cup {r.keys.keyNeighs} ELSE computedNeighs)
        /\ computedPDF' = (IF Invoked(r.ops, "compute_pdf") \/ Invoked(r.ops, "torch_ones")
                           THEN computedPDF \cup {r.keys.keyPDF} ELSE computedPDF)
        /\ resetPending' = FALSE
        /\ UNCHANGED <<conf, params, hierVars, drvVars, opsVars>>

NextConv ==
    \/ Reset
    \/ \E inH \in Hierarchies, docOut \in 1..MaxBatchSize : Forward(inH, docOut)

SpecConv == InitConv /\ [][NextConv]_vars

\* ------------------------------------------------------------------
\* PointHierarchy.__init__ (lines 57-131)

MaxPoints == 2
MaxRadii == 2
Radii == {25, 50}

SeqsUpTo(S, n) == UNION { [1..k -> S] : k \in 0..n }

\* a point is its number in the input cloud; its feature row is <<"f", number>>
PointClouds ==
    { [ inPoints |-> [i \in 1..n |-> i], inFeatures |-> [i \in 1..n |-> <<"f", i>>],
        inBatchIds |-> b, batchSize |-> bs ] :
        n \in 0..MaxPoints, bs \in 1..2, b \in SeqsUpTo(0..1, MaxPoints) }

HierArgs ==
    { [ inPoints |-> c.inPoints, inFeatures |-> c.inFeatures, inBatchIds |-> c.inBatchIds,
        radiusList |-> r, hierarchyName |-> <<"A">>, batchSize |-> c.batchSize,
        relativeRadius |-> rel ] :
        c \in { c \in PointClouds :
                  /\ Len(c.inBatchIds) = Len(c.inPoints)
                  /\ \A i \in 1..Len(c.inBatchIds) : c.inBatchIds[i] < c.batchSize },
        r \in SeqsUpTo(Radii, MaxRadii), rel \in BOOLEAN }

\* ---- the operators of pt_mcc.ops the constructor calls

\* compute_aabb (ops.py 11-12): the native kernel's result is named by its arguments
compute_aabb(pts, batch_ids, batch_size, inv_inf) ==
    [ aabbMin |-> <<"min", pts, batch_ids, batch_size, inv_inf>>,
      aabbMax |-> <<"max", pts, batch_ids, batch_size, inv_inf>> ]

\* sort_points_step1 returns a permutation of the points: here as they are, or reversed
SortPermutations(n) == { [i \in 1..n |-> i], [i \in 1..n |-> n + 1 - i] }

\* row gather by index: sort_points_step2, get_sampled_features, and the sampled
\* points and batch ids of poisson_sampling
Gather(rows, indexs) == [i \in 1..Len(indexs) |-> rows[indexs[i]]]

\* poisson_sampling keeps a subset of the sorted points, at least one when there is
\* one: its indices into the sorted input, in increasing order
RECURSIVE Ascending(_)
Ascending(S) ==
    IF S = {} THEN <<>>
    ELSE LET m == CHOOSE x \in S : \A y \in S : x <= y
         IN  <<m>> \o Ascending(S \ {m})

SampledIndexSets(n) == { Ascending(S) : S \in { T \in SUBSET (1..n) : n > 0 => T # {} } }

\* transform_indices: the sampled indices composed with the sort permutation
transform_indices(sampledIndexs, indexs) == Gather(indexs, sampledIndexs)

\* ---- the constructor

\* lines 77-84
InitialAttributes(a) ==
    [ points_ |-> <<a.inPoints>>, features_ |-> <<a.inFeatures>>,
      batchIds_ |-> <<a.inBatchIds>>, sampledIndexs_ |-> <<>>,
      radiusList_ |-> <<0>>, batchSize_ |-> a.batchSize,
      relativeRadius_ |-> a.relativeRadius, hierarchyName_ |-> a.hierarchyName ]

OpCall(op, pts, batchIds, features, aabbMin, aabbMax, batchSize, radius, rel) ==
    [ op |-> op, pts |-> pts, batchIds |-> batchIds, features |-> features,
      aabbMin |-> aabbMin, aabbMax |-> aabbMax, batchSize |-> batchSize,
      radius |-> radius, relativeRadius |-> rel ]

InitHier ==
    /\ hpc = "start"
    /\ hargs \in HierArgs
    /\ ph = <<>>
    /\ hloc = <<>>
    /\ hops = <<>>
    \* no convolution builder exists
    /\ cacheGrids_ = {} /\ cacheNeighs_ = {} /\ cachePDFs_ = {}
    /\ conf = <<>> /\ params = <<>> /\ last = NoCall
    /\ computedGrid = {} /\ computedNeighs = {} /\ computedPDF = {}
    /\ resetPending = FALSE
    \* no driver runs
    /\ dpc = "idle" /\ dargs = <<>> /\ drv = <<>> /\ sess = <<>> /\ data = <<>>
    /\ outp = <<>> /\ obs = <<>>
    /\ opc = "idle" /\ oargs = <<>> /\ octx = <<>> /\ oret = <<>>

\* lines 76-100: the attributes, the bounding box, the temporal variables
HierBegin ==
    /\ hpc = "start"
    /\ LET self == InitialAttributes(hargs)
           box == compute_aabb(hargs.inPoints, hargs.inBatchIds, hargs.batchSize,
                               self.relativeRadius_)
       IN  /\ ph' = [ points_ |-> self.points_, features_ |-> self.features_,
                      batchIds_ |-> self.batchIds_, sampledIndexs_ |-> self.sampledIndexs_,
                      radiusList_ |-> self.radiusList_, batchSize_ |-> self.batchSize_,
                      relativeRadius_ |-> self.relativeRadius_,
                      hierarchyName_ |-> self.hierarchyName_,
                      aabbMin_ |-> box.aabbMin, aabbMax_ |-> box.aabbMax ]
           /\ hloc' = [ aabbMin |-> box.aabbMin, aabbMax |-> box.aabbMax,
                        currPts |-> hargs.inPoints, currFeatures |-> hargs.inFeatures,
                        currBatchIds |-> hargs.inBatchIds, level |-> 0,
                        \* the loop's locals, unbound before the first iteration
                        indexs |-> <<>>, sampledIndexs |-> <<>> ]
           /\ hops' = <<OpCall("compute_aabb", hargs.inPoints, hargs.inBatchIds, <<>>,
                               <<>>, <<>>, hargs.batchSize, 0, self.relativeRadius_)>>
    /\ hpc' = "loop"
    /\ UNCHANGED <<hargs, convVars, drvVars, opsVars>>

\* a bounding box computed anew from the level's own points
LevelAabbRecomputed(self, loc) ==
    compute_aabb(loc.currPts, loc.currBatchIds, self.batchSize_, self.relativeRadius_)

\* the bounding box the sort operators of a level are given (lines 108-113)
LevelAabb(self, loc) == [aabbMin |-> self.aabbMin_, aabbMax |-> self.aabbMax_]

\* the bounding box poisson_sampling is given (line 117): the constructor's locals
SamplingAabb(self, loc) == [aabbMin |-> loc.aabbMin, aabbMax |-> loc.aabbMax]

\* a level appended without its radius
AppendLevelNoRadius(self, sampledPts, sampledBatchsIds, sampledFeatures, transformedIndexs, currRadius) ==
    [ self EXCEPT !.points_ = Append(@, sampledPts),
                  !.batchIds_ = Append(@, sampledBatchsIds),
                  !.features_ = Append(@, sampledFeatures),
                  !.sampledIndexs_ = Append(@, transformedIndexs) ]

\* lines 122-126
AppendLevel(self, sampledPts, sampledBatchsIds, sampledFeatures, transformedIndexs, currRadius) ==
    [ self EXCEPT !.points_ = Append(@, sampledPts),
                  !.batchIds_ = Append(@, sampledBatchsIds),
                  !.features_ = Append(@, sampledFeatures),
                  !.sampledIndexs_ = Append(@, transformedIndexs),
                  !.radiusList_ = Append(@, currRadius) ]

\* the next level fed with the features of the level before
UpdateTemporalKeepsFeatures(loc, sampledPts, sampledBatchsIds, sampledFeatures) ==
    [loc EXCEPT !.currPts = sampledPts, !.currBatchIds = sampledBatchsIds]

\* lines 129-131
UpdateTemporal(loc, sampledPts, sampledBatchsIds, sampledFeatures) ==
    [ loc EXCEPT !.currPts = sampledPts, !.currBatchIds = sampledBatchsIds,
                 !.currFeatures = sampledFeatures ]

\* lines 103-131: one iteration of the loop over radiusList
HierLevel ==
    /\ hpc = "loop"
    /\ hloc.level < Len(hargs.radiusList)
    /\ LET currRadius == hargs.radiusList[hloc.level + 1]
           sortBox == LevelAabb(ph, hloc)
           sampBox == SamplingAabb(ph, hloc)
       IN  \E indexs \in SortPermutations(Len(hloc.currPts)),
              sampledIndexs \in SampledIndexSets(Len(hloc.currPts)) :
             LET sortPts == Gather(hloc.currPts, indexs)
                 sortBatchs == Gather(hloc.currBatchIds, indexs)
                 sortFeatures == Gather(hloc.currFeatures, indexs)
                 sampledPts == Gather(sortPts, sampledIndexs)
                 sampledBatchsIds == Gather(sortBatchs, sampledIndexs)
                 sampledFeatures == Gather(sortFeatures, sampledIndexs)
                 transformedIndexs == transform_indices(sampledIndexs, indexs)
             IN  /\ hops' = hops \o
                       << OpCall("sort_points_step1", hloc.currPts, hloc.currBatchIds, <<>>,
                                 sortBox.aabbMin, sortBox.aabbMax, ph.batchSize_,
                                 currRadius, ph.relativeRadius_),
                          OpCall("sort_points_step2", hloc.currPts, hloc.currBatchIds,
                                 hloc.currFeatures, sortBox.aabbMin, sortBox.aabbMax,
                                 ph.batchSize_, currRadius, ph.relativeRadius_),
                          OpCall("poisson_sampling", sortPts, sortBatchs, <<>>,
                                 sampBox.aabbMin, sampBox.aabbMax, hargs.batchSize,
                                 currRadius, ph.relativeRadius_),
                          OpCall("get_sampled_features", <<>>, <<>>, sortFeatures,
                                 <<>>, <<>>, 0, 0, FALSE),
                          OpCall("transform_indices", <<>>, <<>>, <<>>,
                                 <<>>, <<>>, 0, 0, FALSE) >>
                 /\ ph' = AppendLevel(ph, sampledPts, sampledBatchsIds, sampledFeatures,
                                      transformedIndexs, currRadius)
                 /\ hloc' = [ UpdateTemporal(hloc, sampledPts, sampledBatchsIds,
                                             sampledFeatures)
                                EXCEPT !.level = @ + 1, !.indexs = indexs,
                                       !.sampledIndexs = sampledIndexs ]
    /\ UNCHANGED <<hpc, hargs, convVars, drvVars, opsVars>>

\* the loop is exhausted and the constructor returns
HierReturn ==
    /\ hpc = "loop"
    /\ hloc.level = Len(hargs.radiusList)
    /\ hpc' = "done"
    /\ UNCHANGED <<hargs, ph, hloc, hops, convVars, drvVars, opsVars>>

NextHier == HierBegin \/ HierLevel \/ HierReturn

SpecHier == InitHier /\ [][NextHier]_vars

\* ------------------------------------------------------------------
\* The static-graph training driver (ModelNet.py)

MaxEpochs == 11
MaxTrainBatch == 2
MaxDecayRate == 2
MaxTestModels == 2
TrainSizes == {2, 3, 20, 21}
EpochCounts == {0, 2, MaxEpochs}

\* defaults of the command line, learning rates in millionths, probabilities in
\* hundredths
InitLearningRate == 5000
DecayFactorInverse == 2
MaxLearningRate == 10
DropOutKeepProb == 50
DropOutKeepProbConv == 80
ConfigLines == 17
LogEvery == 10
SaveEvery == 10

\* what one sess.run on a batch yields: the batch's loss, and whether its
\* predictions match the labels
BatchOutcomes == { [loss |-> 1, correct |-> TRUE], [loss |-> 2, correct |-> FALSE] }

\* a short run on a training set of a few dozen models: --maxEpoch 2 --batchSize 8
SmokeRuns ==
    [ numTrainModels : {24, 44}, batchSize : {8}, numTestModels : {1}, maxEpoch : {2},
      learningDecayRate : {1}, trueDivision : BOOLEAN ]

DriverArgs ==
    [ numTrainModels : TrainSizes, batchSize : 1..MaxTrainBatch,
      numTestModels : 1..MaxTestModels, maxEpoch : EpochCounts,
      learningDecayRate : 1..MaxDecayRate,
      \* '/' on two ints: true division (Python 3) or floor division (Python 2)
      trueDivision : BOOLEAN ]
    \cup SmokeRuns

\* ---- the dataset iterator (ModelNetDataSet)

CeilDiv(n, b) == (n + b - 1) \div b

\* batches one pass over numModels models yields
BatchesPerPass(numModels, batchSize) == CeilDiv(numModels, batchSize)

\* models in the i-th batch of a pass (the last one may be short)
ModelsInBatch(numModels, batchSize, i) ==
    IF i * batchSize <= numModels THEN batchSize ELSE numModels - (i - 1) * batchSize

\* ---- lines 147-150: a value is the fraction num/den

\* line 148
Divide(n, b, trueDivision) ==
    IF trueDivision THEN [num |-> n, den |-> b] ELSE [num |-> n \div b, den |-> 1]

\* lines 148-150
NumBatchesXEpoch(numTrainModels, batchSize, trueDivision) ==
    LET q == Divide(numTrainModels, batchSize, trueDivision)
    IN  IF numTrainModels % batchSize # 0 THEN [num |-> q.num + q.den, den |-> q.den] ELSE q

\* line 178: args.learningDecayRate*numBatchesXEpoch
DecaySteps(learningDecayRate, numBatches) ==
    [num |-> learningDecayRate * numBatches.num, den |-> numBatches.den]

\* line 50, staircase=True: floor(global_step / decay_steps)
DecayExponent(global_step, decaySteps) == (global_step * decaySteps.den) \div decaySteps.num

\* lines 50-51: max(learningRate * factor^exponent, maxLearningRate)
LearningRate(global_step, decaySteps) ==
    LET k == DecayExponent(global_step, decaySteps)
    IN  IF InitLearningRate < MaxLearningRate * DecayFactorInverse ^ k
        THEN [num |-> MaxLearningRate, den |-> 1]
        ELSE [num |-> InitLearningRate, den |-> DecayFactorInverse ^ k]

\* the record written one batch early
LogDueOneEarly(lossInfoCounter) == lossInfoCounter = LogEvery - 1

\* line 244
LogDue(lossInfoCounter) == lossInfoCounter = LogEvery

\* every tenth epoch counted from one
SaveDueCountedFromOne(epoch) == (epoch + 1) % SaveEvery = 0

\* line 268
SaveDue(epoch) == epoch % SaveEvery = 0

\* a loop that also runs for epoch = maxEpoch
EpochsLeftInclusive(epoch, maxEpoch) == epoch <= maxEpoch

\* line 217: for epoch in range(args.maxEpoch)
EpochsLeft(epoch, maxEpoch) == epoch < maxEpoch

\* a reset that leaves the accumulators as they are
ResetMetricsSkipped(ss) == ss

\* resetMetrics (lines 183-184): the metric's two local variables
ResetMetrics(ss) == [ss EXCEPT !.total = 0, !.count = 0]

\* a test batch fed with the training pass's keep-probabilities
TestFeedWithDropOut ==
    [isTraining |-> FALSE, keepProbConv |-> DropOutKeepProbConv, keepProbFull |-> DropOutKeepProb]

\* line 280: isTraining: False, keepProbConv: 1.0, keepProbFull: 1.0
TestFeed == [isTraining |-> FALSE, keepProbConv |-> 100, keepProbFull |-> 100]

\* line 290: accumTestLoss/float(numTestModels)
TestMean(accumTestLoss, numTestModels) == [num |-> accumTestLoss, den |-> numTestModels]

\* the test batch run with the training operation among its fetches
TestFetchesWithTrainning == {"trainning", "loss", "accuracyAccumOp"}

\* line 279: sess.run([loss, accuracyAccumOp], ...)
TestFetches == {"loss", "accuracyAccumOp"}

\* line 237: sess.run([trainning, loss, xentropyLoss, regularizationLoss,
\* trainingSummary, accuracyAccumOp], ...)
TrainFetches ==
    { "trainning", "loss", "xentropyLoss", "regularizationLoss", "trainingSummary",
      "accuracyAccumOp" }

\* sess.run(fetches, feed) on a batch of size models of which the correct ones are
\* counted: trainning (lines 49-55) applies the optimizer at the current learning
\* rate and increments global_step; accuracyAccumOp (lines 43-46) updates the metric
SessRun(ss, fetches, feed, correct, size) ==
    LET stepped == IF "trainning" \in fetches
                   THEN [ ss EXCEPT
                            !.learningRate = LearningRate(ss.global_step, ss.decaySteps),
                            !.global_step = @ + 1,
                            !.weights = @ + 1 ]
                   ELSE ss
        counted == IF "accuracyAccumOp" \in fetches
                   THEN [ stepped EXCEPT !.total = @ + (IF correct THEN size ELSE 0),
                                         !.count = @ + size ]
                   ELSE stepped
    IN  [counted EXCEPT !.feed = feed]

\* line 238: isTraining: True and the two keep-probabilities of the command line
TrainFeed ==
    [isTraining |-> TRUE, keepProbConv |-> DropOutKeepProbConv, keepProbFull |-> DropOutKeepProb]

NoFeed == [isTraining |-> FALSE, keepProbConv |-> 0, keepProbFull |-> 0]

\* a line of log.txt: "config", "step" (line 253), "epoch" (line 266), "test" (line 295)
LogLine(kind, step, epochStep, loss, total, count) ==
    [ kind |-> kind, step |-> step, epochStep |-> epochStep, loss |-> loss,
      total |-> total, count |-> count ]

InitDriver ==
    /\ dpc = "start"
    /\ dargs \in DriverArgs
    /\ drv = <<>> /\ sess = <<>> /\ data = <<>> /\ outp = <<>> /\ obs = <<>>
    \* no builder, no hierarchy
    /\ cacheGrids_ = {} /\ cacheNeighs_ = {} /\ cachePDFs_ = {}
    /\ conf = <<>> /\ params = <<>> /\ last = NoCall
    /\ computedGrid = {} /\ computedNeighs = {} /\ computedPDF = {}
    /\ resetPending = FALSE
    /\ hpc = "idle" /\ hargs = <<>> /\ ph = <<>> /\ hloc = <<>> /\ hops = <<>>
    /\ opc = "idle" /\ oargs = <<>> /\ octx = <<>> /\ oret = <<>>

\* lines 83-214: the log's configuration lines, the datasets, the graph, the session
Setup ==
    /\ dpc = "start"
    /\ LET nb == NumBatchesXEpoch(dargs.numTrainModels, dargs.batchSize, dargs.trueDivision)
       IN  /\ drv' = [ numBatchesXEpoch |-> nb, step |-> 0, epochStep |-> 0, epoch |-> 0,
                       lossInfoCounter |-> 0, lossAccumValue |-> 0,
                       accumTestLoss |-> [num |-> 0, den |-> 1], it |-> 0 ]
           /\ sess' = [ global_step |-> 0,
                        decaySteps |-> DecaySteps(dargs.learningDecayRate, nb),
                        \* the trainable variables: how often the optimizer
                        \* has updated them
                        weights |-> 0,
                        total |-> 0, count |-> 0, feed |-> NoFeed,
                        learningRate |-> [num |-> 0, den |-> 1] ]
    /\ data' = [trainLeft |-> 0, testLeft |-> 0]
    /\ outp' = [ configLines |-> ConfigLines, stepRecords |-> 0, epochLines |-> 0,
                 testLines |-> 0,
                 lastLine |-> LogLine("config", 0, 0, [num |-> 0, den |-> 1], 0, 0),
                 saves |-> <<>> ]
    /\ obs' = [ trainDone |-> 0, testDone |-> 0, windowLoss |-> 0, justLogged |-> FALSE,
                testLossSum |-> 0, winTotal |-> 0, winCount |-> 0,
                testTotal |-> 0, testCount |-> 0, trainedTotal |-> 0 ]
    /\ dpc' = "epochs"
    /\ UNCHANGED <<dargs, convVars, hierVars, opsVars>>

\* lines 217-229: the head of one epoch
EpochBegin ==
    /\ dpc = "epochs"
    /\ EpochsLeft(drv.epoch, dargs.maxEpoch)
    /\ drv' = [drv EXCEPT !.epochStep = 0, !.lossInfoCounter = 0, !.lossAccumValue = 0]
    /\ sess' = ResetMetrics(sess)
    /\ data' = [data EXCEPT !.trainLeft = BatchesPerPass(dargs.numTrainModels, dargs.batchSize)]
    /\ obs' = [ trainDone |-> 0, testDone |-> 0, windowLoss |-> 0, justLogged |-> FALSE,
                testLossSum |-> 0, winTotal |-> 0, winCount |-> 0,
                testTotal |-> 0, testCount |-> 0,
                trainedTotal |-> obs.trainedTotal ]
    /\ dpc' = "train"
    /\ UNCHANGED <<dargs, outp, convVars, hierVars, opsVars>>

\* lines 230-261: one training batch
TrainBatch(o) ==
    /\ dpc = "train"
    /\ data.trainLeft > 0
    /\ LET size == ModelsInBatch(dargs.numTrainModels, dargs.batchSize, obs.trainDone + 1)
           \* lines 234-237: the optimizer step, the loss, the metric's update
           ran == SessRun(sess, TrainFetches, TrainFeed, o.correct, size)
           \* lines 241-242
           accum == drv.lossAccumValue + o.loss
           counter == drv.lossInfoCounter + 1
           due == LogDue(counter)
       IN  /\ sess' = (IF due THEN ResetMetrics(ran) ELSE ran)
           /\ outp' = (IF due
                       THEN [ outp EXCEPT
                                !.stepRecords = @ + 1,
                                \* line 253: lossAccumValue/10.0 and the accuracy
                                !.lastLine = LogLine("step", drv.step, drv.epochStep,
                                                     [num |-> accum, den |-> 10],
                                                     ran.total, ran.count) ]
                       ELSE outp)
           /\ drv' = [ drv EXCEPT
                         !.lossAccumValue = (IF due THEN 0 ELSE accum),
                         !.lossInfoCounter = (IF due THEN 0 ELSE counter),
                         !.step = @ + 1,
                         !.epochStep = @ + 1 ]
           /\ obs' = [ obs EXCEPT
                         !.trainDone = @ + 1,
                         !.trainedTotal = @ + 1,
                         !.windowLoss = (IF obs.trainDone % 10 = 0 THEN 0 ELSE @) + o.loss,
                         !.winTotal = (IF obs.trainDone % 10 = 0 THEN 0 ELSE @)
                                          + (IF o.correct THEN size ELSE 0),
                         !.winCount = (IF obs.trainDone % 10 = 0 THEN 0 ELSE @) + size,
                         !.justLogged = due ]
    /\ data' = [data EXCEPT !.trainLeft = @ - 1]
    /\ UNCHANGED <<dpc, dargs, convVars, hierVars, opsVars>>

\* lines 263-269: the training pass is over; the epoch's line, the checkpoint
TrainEnd ==
    /\ dpc = "train"
    /\ data.trainLeft = 0
    /\ outp' = [ outp EXCEPT
                   !.epochLines = @ + 1,
                   !.lastLine = LogLine("epoch", 0, 0, [num |-> 0, den |-> 1], 0, 0),
                   !.saves = IF SaveDue(drv.epoch)
                             THEN Append(@, [ epoch |-> drv.epoch, step |-> drv.step,
                                              trainDone |-> obs.trainDone,
                                              trainLeft |-> data.trainLeft,
                                              testDone |-> obs.testDone ])
                             ELSE @ ]
    /\ obs' = [obs EXCEPT !.justLogged = FALSE]
    /\ dpc' = "trained"
    /\ UNCHANGED <<dargs, drv, sess, data, convVars, hierVars, opsVars>>

\* lines 271-275: the head of the test pass
TestBegin ==
    /\ dpc = "trained"
    /\ drv' = [drv EXCEPT !.accumTestLoss = [num |-> 0, den |-> 1], !.it = 0]
    /\ sess' = ResetMetrics(sess)
    /\ data' = [data EXCEPT !.testLeft = BatchesPerPass(dargs.numTestModels, 1)]
    /\ dpc' = "test"
    /\ UNCHANGED <<dargs, outp, obs, convVars, hierVars, opsVars>>

\* lines 276-287: one test batch
TestBatch(o) ==
    /\ dpc = "test"
    /\ data.testLeft > 0
    /\ LET size == ModelsInBatch(dargs.numTestModels, 1, obs.testDone + 1)
       IN  /\ sess' = SessRun(sess, TestFetches, TestFeed, o.correct, size)
           /\ obs' = [ obs EXCEPT
                         !.testDone = @ + 1, !.testLossSum = @ + o.loss,
                         !.testTotal = @ + (IF o.correct THEN size ELSE 0),
                         !.testCount = @ + size ]
    /\ drv' = [drv EXCEPT !.accumTestLoss.num = @ + o.loss, !.it = @ + 1]
    /\ data' = [data EXCEPT !.testLeft = @ - 1]
    /\ UNCHANGED <<dpc, dargs, outp, convVars, hierVars, opsVars>>

\* lines 289-295: the test pass is over; its line in the log; the next epoch
TestEnd ==
    /\ dpc = "test"
    /\ data.testLeft = 0
    /\ LET mean == TestMean(drv.accumTestLoss.num, dargs.numTestModels)
       IN  /\ drv' = [drv EXCEPT !.accumTestLoss = mean, !.epoch = @ + 1]
           /\ outp' = [ outp EXCEPT
                          !.testLines = @ + 1,
                          !.lastLine = LogLine("test", 0, 0, mean, sess.total,
                                               sess.count) ]
    /\ dpc' = "epochs"
    /\ UNCHANGED <<dargs, sess, data, obs, convVars, hierVars, opsVars>>

\* line 217: range(args.maxEpoch) is exhausted
DriverExit ==
    /\ dpc = "epochs"
    /\ ~EpochsLeft(drv.epoch, dargs.maxEpoch)
    /\ dpc' = "done"
    /\ UNCHANGED <<dargs, drv, sess, data, outp, obs, convVars, hierVars, opsVars>>

NextDriver ==
    \/ Setup
    \/ EpochBegin
    \/ \E o \in BatchOutcomes : TrainBatch(o)
    \/ TrainEnd
    \/ TestBegin
    \/ \E o \in BatchOutcomes : TestBatch(o)
    \/ TestEnd
    \/ DriverExit

SpecDriver == InitDriver /\ [][NextDriver]_vars

\* ---- the same driver, for termination, on runs of at most two epochs

TerminationRuns ==
    [ numTrainModels : {2, 3, 21}, batchSize : 1..MaxTrainBatch,
      numTestModels : 1..MaxTestModels, maxEpoch : 0..2,
      learningDecayRate : {1}, trueDivision : BOOLEAN ]

InitTermination ==
    /\ dpc = "start"
    /\ dargs \in TerminationRuns
    /\ drv = <<>> /\ sess = <<>> /\ data = <<>> /\ outp = <<>> /\ obs = <<>>
    /\ cacheGrids_ = {} /\ cacheNeighs_ = {} /\ cachePDFs_ = {}
    /\ conf = <<>> /\ params = <<>> /\ last = NoCall
    /\ computedGrid = {} /\ computedNeighs = {} /\ computedPDF = {}
    /\ resetPending = FALSE
    /\ hpc = "idle" /\ hargs = <<>> /\ ph = <<>> /\ hloc = <<>> /\ hops = <<>>
    /\ opc = "idle" /\ oargs = <<>> /\ octx = <<>> /\ oret = <<>>

\* the driver is one sequential program: whenever it has a next statement, it runs it
SpecTermination == InitTermination /\ [][NextDriver]_vars /\ WF_vars(NextDriver)

\* ------------------------------------------------------------------
\* The operator binding module (pt_mcc/ops.py)

MaxElems == 2
MaxAabbPoints == 3
MaxAabbBatch == 2
TensorValues == {-1, 2}

\* a value is None, a tensor (its elements in data), or the TypeError of a kernel
\* that was handed None
None == [isNone |-> TRUE, err |-> FALSE, data |-> <<>>]

Tensor(v) == [isNone |-> FALSE, err |-> FALSE, data |-> v]

TypeError == [isNone |-> FALSE, err |-> TRUE, data |-> <<>>]

Tensors(n) == { Tensor(v) : v \in [1..n -> TensorValues] }

\* the calls of mymuladd(a, b, c) that autograd records: a and b of one shape, c a
\* float (never differentiable), a gradient asked for a, for b, or for both
MulAddCalls ==
    UNION { [ a : Tensors(n), b : Tensors(n), c : {1},
              needs_input_grad : { <<TRUE, TRUE, FALSE>>, <<TRUE, FALSE, FALSE>>,
                                   <<FALSE, TRUE, FALSE>> } ] : n \in 1..MaxElems }

\* the upstream gradients autograd may hand to backward
UpstreamGrads == UNION { Tensors(n) : n \in 1..MaxElems }

\* torch.ops.pt_mcc.mymul: the elementwise product of two tensors of one shape
mymul(x, y) ==
    IF x.isNone \/ y.isNone \/ x.err \/ y.err THEN TypeError
    ELSE Tensor([i \in 1..Len(x.data) |-> x.data[i] * y.data[i]])

\* a set-up that saves the pair in the order (b, a)
setup_context_swapped(needs_input_grad, inputs) ==
    LET saved_b == IF needs_input_grad[1] THEN inputs.b ELSE None
        saved_a == IF needs_input_grad[2] THEN inputs.a ELSE None
    IN  [needs_input_grad |-> needs_input_grad, saved_tensors |-> <<saved_b, saved_a>>]

\* lines 49-56: _setup_context(ctx, inputs, output)
setup_context(needs_input_grad, inputs) ==
    LET saved_b == IF needs_input_grad[1] THEN inputs.b ELSE None
        saved_a == IF needs_input_grad[2] THEN inputs.a ELSE None
    IN  [needs_input_grad |-> needs_input_grad, saved_tensors |-> <<saved_a, saved_b>>]

\* a backward that multiplies by the operand the gradient is taken for
backwardOwnOperand(ctx, grad) ==
    LET a == ctx.saved_tensors[1]
        b == ctx.saved_tensors[2]
    IN  << IF ctx.needs_input_grad[1] THEN mymul(grad, a) ELSE None,
           IF ctx.needs_input_grad[2] THEN mymul(grad, b) ELSE None,
           None >>

\* lines 39-46: _backward(ctx, grad)
backward(ctx, grad) ==
    LET a == ctx.saved_tensors[1]
        b == ctx.saved_tensors[2]
        grad_a == IF ctx.needs_input_grad[1] THEN mymul(grad, b) ELSE None
        grad_b == IF ctx.needs_input_grad[2] THEN mymul(grad, a) ELSE None
    IN  <<grad_a, grad_b, None>>

\* lines 21-24: the abstract kernel of compute_aabb, on shapes
fake_compute_aabb(ptsShape, batch_size) == <<ptsShape, ptsShape>>

\* the names a "from pt_mcc.ops import ..." can find (ops.py 1-77)
OpsModuleNames ==
    { "torch", "Tensor", "__all__", "mymuladd", "compute_aabb", "test", "_",
      "_backward", "_setup_context", "myadd_out" }

\* MCConvBuilder.py lines 22-23
BuilderImports ==
    { "compute_aabb", "sort_points_step1", "sort_points_step2", "sort_features",
      "sort_features_back", "compute_pdf", "poisson_sampling", "get_sampled_features",
      "spatial_conv", "get_block_size", "transform_indices", "find_neighbors" }

\* from M import names: ImportError at the first name M does not define
ImportFrom(moduleNames, names) == IF names \subseteq moduleNames THEN "loaded" ELSE "ImportError"

NoReturn == [grads |-> <<>>, grad |-> None, fake |-> <<>>, builder |-> "unloaded"]

InitOps ==
    /\ opc = "start"
    /\ oargs \in MulAddCalls
    /\ octx = <<>>
    /\ oret = NoReturn
    \* no builder, no hierarchy, no driver
    /\ cacheGrids_ = {} /\ cacheNeighs_ = {} /\ cachePDFs_ = {}
    /\ conf = <<>> /\ params = <<>> /\ last = NoCall
    /\ computedGrid = {} /\ computedNeighs = {} /\ computedPDF = {}
    /\ resetPending = FALSE
    /\ hpc = "idle" /\ hargs = <<>> /\ ph = <<>> /\ hloc = <<>> /\ hops = <<>>
    /\ dpc = "idle" /\ dargs = <<>> /\ drv = <<>> /\ sess = <<>> /\ data = <<>>
    /\ outp = <<>> /\ obs = <<>>

\* the forward call of mymuladd: autograd runs _setup_context
MulAddForward ==
    /\ opc = "start"
    /\ octx' = setup_context(oargs.needs_input_grad, oargs)
    /\ opc' = "forwarded"
    /\ UNCHANGED <<oargs, oret, convVars, hierVars, drvVars>>

\* autograd runs _backward with an upstream gradient of the output's shape
MulAddBackward(grad) ==
    /\ opc = "forwarded"
    /\ Len(grad.data) = Len(oargs.a.data)
    /\ oret' = [oret EXCEPT !.grads = backward(octx, grad), !.grad = grad]
    /\ opc' = "backwarded"
    /\ UNCHANGED <<oargs, octx, convVars, hierVars, drvVars>>

\* compute_aabb traced on abstract tensors: pts of shape N x 3, batch size B
FakeComputeAabb(N, B) ==
    /\ opc # "idle"
    /\ oret.fake = <<>>
    /\ oret' = [oret EXCEPT !.fake = << [ N |-> N, B |-> B,
                                          shapes |-> fake_compute_aabb(<<N, 3>>, B) ] >>]
    /\ UNCHANGED <<opc, oargs, octx, convVars, hierVars, drvVars>>

\* import of utils/MCConvBuilder.py: its line 22 runs
LoadBuilder ==
    /\ opc # "idle"
    /\ oret.builder = "unloaded"
    /\ oret' = [oret EXCEPT !.builder = ImportFrom(OpsModuleNames, BuilderImports)]
    /\ UNCHANGED <<opc, oargs, octx, convVars, hierVars, drvVars>>

NextOps ==
    \/ MulAddForward
    \/ \E grad \in UpstreamGrads : MulAddBackward(grad)
    \/ \E N \in 1..MaxAabbPoints, B \in 1..MaxAabbBatch : FakeComputeAabb(N, B)
    \/ LoadBuilder

SpecOps == InitOps /\ [][NextOps]_vars

\* ------------------------------------------------------------------
\* Claims about ConvolutionBuilder (SpecConv)

Caches == <<cacheGrids_, cacheNeighs_, cachePDFs_>>

\* C1: a forward() whose grid key equals that of an earlier forward() (no reset()
\* in between) does not invoke sort_points_step1/sort_points_step2 again; likewise
\* an equal neighbor key means no find_neighbors and an equal PDF key no compute_pdf.
C1_CachedKeysNotRecomputed ==
    last.call = "forward" =>
        /\ last.gridSeen => /\ ~Invoked(last.ops, "sort_points_step1")
                            /\ ~Invoked(last.ops, "sort_points_step2")
        /\ last.neighSeen => ~Invoked(last.ops, "find_neighbors")
        /\ last.pdfSeen => ~Invoked(last.ops, "compute_pdf")

\* C2: reset() leaves the three caches empty and the parameters and configuration
\* as they were, and the forward() that follows it (when it runs through) computes
\* the grid, the neighbors and the PDF weights anew.
C2_ResetClearsAndForwardRecomputes ==
    /\ [][last'.call = "reset" =>
            /\ cacheGrids_' = {} /\ cacheNeighs_' = {} /\ cachePDFs_' = {}
            /\ params' = params
            /\ conf' = conf]_vars
    /\ []((last.call = "forward" /\ last.afterReset /\ last.outcome = "ok") =>
            /\ Invoked(last.ops, "sort_points_step1")
            /\ Invoked(last.ops, "sort_points_step2")
            /\ Invoked(last.ops, "find_neighbors")
            /\ IF conf.usePDF_ THEN Invoked(last.ops, "compute_pdf")
                               ELSE Invoked(last.ops, "torch_ones"))

C2_Witness ==
    /\ last.call = "forward" /\ last.afterReset /\ last.outcome = "ok"
    /\ conf.usePDF_
    /\ params.weights = 2

\* C3: forward() fails with the batch-size error, before any operator is invoked,
\* whenever the batch size of the hierarchy passed in differs from the batch size
\* of the output hierarchy the convolution is meant to run with.
C3_BatchSizeMismatchRaises ==
    (last.call = "forward" /\ last.docOutBatchSize # last.hier.batchSize_) =>
        (last.outcome = "RuntimeError_batch" /\ last.ops = <<>>)

\* C4: with the multi-feature flag off and outNumFeatures # inNumFeatures every
\* forward() raises the configuration error before any operator is invoked and
\* leaves the three caches unchanged; otherwise this check never raises.
C4_FeatureCountChecked ==
    [][last'.call = "forward" =>
         IF (~conf.multiFeatureConvs_) /\ conf.outNumFeatures # conf.inNumFeatures
         THEN /\ last'.outcome = "RuntimeError_features"
              /\ last'.ops = <<>>
              /\ Caches' = Caches
         ELSE last'.outcome # "RuntimeError_features"]_vars

C4_Witness ==
    /\ last.call = "forward"
    /\ last.outcome = "RuntimeError_features"
    /\ ~conf.multiFeatureConvs_
    /\ conf.outNumFeatures # conf.inNumFeatures

\* the components of the call of __compute_dic_keys__ the last forward() made
LastKeyCall ==
    [ inName |-> last.hier.hierarchyName_, inLevel |-> conf.inPointLevel,
      radius |-> conf.convRadius, relative |-> conf.relativeRadius_,
      outName |-> last.hier.hierarchyName_, outLevel |-> conf.outPointLevel,
      window |-> conf.KDEWindow_, usePDF |-> conf.usePDF_ ]

GridPart(c) == <<c.inName, c.inLevel, c.radius, c.relative>>

NeighPart(c) == <<GridPart(c), c.outName, c.outLevel>>

PDFPart(c) == <<NeighPart(c), c.window, c.usePDF>>

\* over all calls: equal keys exactly for equal components
KeysTellCallsApart ==
    \A c1, c2 \in KeyCalls :
        /\ KeyTable[c1].keyGrid = KeyTable[c2].keyGrid <=> GridPart(c1) = GridPart(c2)
        /\ KeyTable[c1].keyNeighs = KeyTable[c2].keyNeighs <=> NeighPart(c1) = NeighPart(c2)
        /\ KeyTable[c1].keyPDF = KeyTable[c2].keyPDF <=> PDFPart(c1) = PDFPart(c2)

\* C16: the grid key is a function of exactly (input hierarchy name, input level,
\* radius, relative flag), the neighbor key of those plus (output hierarchy name,
\* output level), the PDF key of those plus (KDE window, use-PDF flag): instances
\* with the same name yield the same keys, and calls that differ in a listed
\* component yield different keys.
C16_KeysIdentifyTheirComponents ==
    last.call = "forward" =>
        /\ \A h \in Hierarchies :
              h.hierarchyName_ = last.hier.hierarchyName_ =>
                  LET kg == KeyGrid(h, conf.inPointLevel, conf.convRadius,
                                    conf.relativeRadius_)
                      kn == KeyNeighs(kg, OutPointHierarchy(h), conf.outPointLevel)
                  IN  /\ kg = last.keyGrid
                      /\ kn = last.keyNeighs
                      /\ KeyPDF(kn, conf.KDEWindow_, conf.usePDF_) = last.keyPDF
        /\ LastKeyCall \in KeyCalls
        /\ KeyTable[LastKeyCall].keyGrid = last.keyGrid
        /\ KeyTable[LastKeyCall].keyNeighs = last.keyNeighs
        /\ KeyTable[LastKeyCall].keyPDF = last.keyPDF
        /\ KeysTellCallsApart

C16_Witness ==
    /\ last.call = "forward"
    /\ last.hier.batchSize_ = 2
    /\ last.keyGrid = <<"A", "|", "1", "|", "0", ".", "5", "|", "T", "r", "u", "e">>
    /\ last.keyNeighs = last.keyGrid \o <<"|", "A", "|", "0">>
    /\ last.keyPDF = last.keyNeighs
                        \o <<"|", "0", ".", "2", "5", "|", "F", "a", "l", "s", "e">>

\* C20: the second dimension of each weight matrix and the length of each bias
\* vector are the smallest multiple of the block size S that is >= the number of
\* kernel output channels: inNumFeatures x outNumFeatures for a multi-feature
\* builder (outNumFeatures being inNumFeatures when not supplied), inNumFeatures
\* otherwise; the width is never negative and never below the channel count.
C20_ParameterWidthPadded ==
    LET channels == IF conf.multiFeatureConvs_
                    THEN conf.inNumFeatures * conf.outNumFeatures
                    ELSE conf.inNumFeatures
        S == params.blockSize
    IN  /\ params.width % S = 0
        /\ params.width >= 0
        /\ params.width >= channels
        /\ params.width - S < channels

\* ------------------------------------------------------------------
\* Claims about PointHierarchy (SpecHier)

OpsNamed(name) == { i \in 1..Len(hops) : hops[i].op = name }

\* C5: for a radius list of length L the constructed hierarchy has L+1 entries in
\* points_, features_, batchIds_ and radiusList_ and L in sampledIndexs_; level 0
\* is the raw input with radius 0.0; radiusList_ is [0.0] followed by the radii in
\* order; for L = 0 only compute_aabb is invoked.
C5_HierarchyLevels ==
    hpc = "done" =>
        LET L == Len(hargs.radiusList)
        IN  /\ Len(ph.points_) = L + 1
            /\ Len(ph.features_) = L + 1
            /\ Len(ph.batchIds_) = L + 1
            /\ Len(ph.radiusList_) = L + 1
            /\ Len(ph.sampledIndexs_) = L
            /\ ph.points_[1] = hargs.inPoints
            /\ ph.features_[1] = hargs.inFeatures
            /\ ph.batchIds_[1] = hargs.inBatchIds
            /\ ph.radiusList_ = <<0>> \o hargs.radiusList
            /\ (L = 0 => (Len(hops) = 1 /\ hops[1].op = "compute_aabb"))

C5_Witness ==
    /\ hpc = "done"
    /\ hargs.radiusList = <<50, 25>>
    /\ Len(hargs.inPoints) = 2

\* C6: compute_aabb is invoked exactly once, on the level-0 input, every
\* sort_points_step1, sort_points_step2 and poisson_sampling call of every level
\* receives that bounding box (and the same batch size and relative-radius flag),
\* and aabbMin_/aabbMax_ keep the value of that first computation.
C6_OneBoundingBox ==
    hpc \in {"loop", "done"} =>
        LET box == compute_aabb(hargs.inPoints, hargs.inBatchIds, hargs.batchSize,
                                hargs.relativeRadius)
        IN  /\ OpsNamed("compute_aabb") = {1}
            /\ hops[1].pts = hargs.inPoints
            /\ hops[1].batchIds = hargs.inBatchIds
            /\ ph.aabbMin_ = box.aabbMin
            /\ ph.aabbMax_ = box.aabbMax
            /\ \A i \in OpsNamed("sort_points_step1") \cup OpsNamed("sort_points_step2")
                        \cup OpsNamed("poisson_sampling") :
                  /\ hops[i].aabbMin = box.aabbMin
                  /\ hops[i].aabbMax = box.aabbMax
                  /\ hops[i].batchSize = hargs.batchSize
                  /\ hops[i].relativeRadius = hargs.relativeRadius

C6_Witness ==
    /\ hpc = "done"
    /\ Len(hargs.radiusList) = 2
    /\ Len(ph.points_[2]) < Len(ph.points_[1])
    /\ Cardinality(OpsNamed("poisson_sampling")) = 2

\* the operators invoked for radius k (counted from 1), in the order of the loop body
LevelOps(k) == [i \in 1..5 |-> hops[1 + 5 * (k - 1) + i]]

\* C18: the radii are processed in list order and level k+1 is derived only from
\* level k: the sort operators for radius k get the points, batch ids and features
\* stored as level k and the sampling operator gets them sorted; the stored features
\* of level k+1 are the rows of level k's sorted features at the sampled indices;
\* the stored index mapping is the sampled indices composed with the sort
\* permutation; no level has more points than the level before it.
C18_LevelDerivedFromPrevious ==
    hpc \in {"loop", "done"} =>
        /\ Len(hops) = 1 + 5 * hloc.level
        /\ \A k \in 1..hloc.level :
              LET ops == LevelOps(k)
              IN  /\ ops[1].op = "sort_points_step1"
                  /\ ops[1].pts = ph.points_[k]
                  /\ ops[1].batchIds = ph.batchIds_[k]
                  /\ ops[1].radius = hargs.radiusList[k]
                  /\ ops[2].op = "sort_points_step2"
                  /\ ops[2].pts = ph.points_[k]
                  /\ ops[2].batchIds = ph.batchIds_[k]
                  /\ ops[2].features = ph.features_[k]
                  /\ ops[2].radius = hargs.radiusList[k]
                  /\ ops[3].op = "poisson_sampling"
                  /\ ops[3].radius = hargs.radiusList[k]
                  /\ ph.radiusList_[k + 1] = hargs.radiusList[k]
                  /\ Len(ph.points_[k + 1]) <= Len(ph.points_[k])
                  /\ Len(ph.features_[k + 1]) = Len(ph.points_[k + 1])
        /\ hloc.level > 0 =>
              LET k == hloc.level
                  ops == LevelOps(k)
                  perm == hloc.indexs
                  kept == hloc.sampledIndexs
              IN  /\ ops[3].pts = [i \in 1..Len(perm) |-> ph.points_[k][perm[i]]]
                  /\ ops[3].batchIds = [i \in 1..Len(perm) |-> ph.batchIds_[k][perm[i]]]
                  /\ ops[4].features = [i \in 1..Len(perm) |-> ph.features_[k][perm[i]]]
                  /\ ph.points_[k + 1] = [i \in 1..Len(kept) |-> ops[3].pts[kept[i]]]
                  /\ ph.features_[k + 1]
                        = [i \in 1..Len(kept) |-> ph.features_[k][perm[kept[i]]]]
                  /\ ph.sampledIndexs_[k] = [i \in 1..Len(kept) |-> perm[kept[i]]]
                  /\ hloc.currPts = ph.points_[k + 1]
                  /\ hloc.currBatchIds = ph.batchIds_[k + 1]
                  /\ hloc.currFeatures = ph.features_[k + 1]

C18_Witness ==
    /\ hpc = "done"
    /\ hargs.radiusList = <<25, 50>>
    /\ Len(ph.points_[1]) = 2
    /\ ph.features_[2] = << <<"f", 2>>, <<"f", 1>> >>
    /\ ph.features_[3] = << <<"f", 1>> >>
    /\ ph.sampledIndexs_[2] = <<2>>

\* ------------------------------------------------------------------
\* Claims about the static-graph driver (SpecDriver)

Running == dpc \in {"epochs", "train", "trained", "test", "done"}

\* C7: for all positive numTrainModels and batchSize the driver's batches-per-epoch
\* value is the integer ceil(numTrainModels / batchSize).
C7_BatchesPerEpochIsCeil ==
    Running =>
        drv.numBatchesXEpoch.num =
            CeilDiv(dargs.numTrainModels, dargs.batchSize) * drv.numBatchesXEpoch.den

\* C8: the global step increments once per training batch and never in a test pass,
\* so at the first batch of epoch e the decay exponent floor(step / decaySteps) is
\* floor(e / learningDecayRate); the rate used is never below maxLearningRate.
C8_DecayExponentPerEpoch ==
    Running =>
        /\ sess.global_step = drv.step
        /\ sess.learningRate.num = 0
             \/ sess.learningRate.num >= MaxLearningRate * sess.learningRate.den
        /\ (dpc = "train" /\ obs.trainDone = 0) =>
              DecayExponent(sess.global_step, sess.decaySteps)
                  = drv.epoch \div dargs.learningDecayRate

\* C9: a checkpoint is saved in epoch e exactly when e is divisible by 10 (epoch 0
\* included), once, after the epoch's training pass has consumed every training
\* batch and before its test pass starts.
C9_CheckpointEveryTenthEpoch ==
    Running =>
        LET saved == { outp.saves[i].epoch : i \in 1..Len(outp.saves) }
            SavePointPassed(e) ==
                e < drv.epoch \/ (e = drv.epoch /\ dpc \in {"trained", "test"})
        IN  /\ saved \subseteq 0..drv.epoch
            /\ Cardinality(saved) = Len(outp.saves)
            /\ \A e \in 0..drv.epoch : e \in saved <=> (SavePointPassed(e) /\ e % 10 = 0)
            /\ \A i \in 1..Len(outp.saves) :
                  /\ outp.saves[i].trainLeft = 0
                  /\ outp.saves[i].trainDone
                        = BatchesPerPass(dargs.numTrainModels, dargs.batchSize)
                  /\ outp.saves[i].testDone = 0

C9_Witness ==
    /\ dpc = "trained"
    /\ drv.epoch = 10
    /\ Len(outp.saves) = 2
    /\ outp.saves[2].epoch = 10
    /\ outp.saves[2].trainDone = 21

\* C10: within an epoch a "Step" record is written exactly after the 10th, 20th,
\* ... training batch; its loss is the sum of the 10 most recent batch losses
\* divided by 10; right after it the loss accumulator, the batch counter and the
\* accuracy accumulator are reset.
C10_StepRecordEveryTenBatches ==
    dpc = "train" =>
        /\ obs.justLogged <=> (obs.trainDone > 0 /\ obs.trainDone % 10 = 0)
        /\ obs.justLogged =>
              /\ outp.lastLine.kind = "step"
              /\ outp.lastLine.loss = [num |-> obs.windowLoss, den |-> 10]
              /\ drv.lossAccumValue = 0
              /\ drv.lossInfoCounter = 0
              /\ sess.total = 0
              /\ sess.count = 0

C10_Witness ==
    /\ dpc = "train"
    /\ obs.justLogged
    /\ obs.trainDone = 20
    /\ drv.epoch = 1
    /\ obs.windowLoss = 13

\* C11: a run with maxEpoch = 2 and batchSize = 8 on a training set of 24 to 48
\* models completes with the configuration lines and at least one "Step" record in
\* log.txt, and a checkpoint exists once epoch 0 has finished.
C11_SmokeRunLogsStepAndCheckpoint ==
    (dargs \in SmokeRuns /\ Running) =>
        /\ outp.configLines = ConfigLines
        /\ drv.epoch >= 1 => Len(outp.saves) >= 1
        /\ dpc = "done" => outp.stepRecords >= 1

\* C12: after each test pass the reported test loss is the sum of the losses of
\* exactly that pass's test batches divided by the number of test models, and every
\* test batch is evaluated with the training flag false and both keep-probabilities
\* equal to 1.0.
C12_TestLossIsMeanOverModels ==
    /\ (dpc = "test" /\ obs.testDone > 0) =>
          /\ sess.feed.isTraining = FALSE
          /\ sess.feed.keepProbConv = 100
          /\ sess.feed.keepProbFull = 100
    /\ (dpc \in {"epochs", "done"} /\ drv.epoch > 0) =>
          /\ outp.lastLine.kind = "test"
          /\ obs.testDone = dargs.numTestModels
          /\ outp.lastLine.loss.num = obs.testLossSum
          /\ outp.lastLine.loss.den = dargs.numTestModels

C12_Witness ==
    /\ dpc = "epochs"
    /\ drv.epoch = 2
    /\ dargs.numTestModels = 2
    /\ outp.lastLine.kind = "test"
    /\ outp.lastLine.loss = [num |-> 3, den |-> 2]

\* C13: the driver terminates after exactly maxEpoch epochs; each epoch is one
\* complete training pass followed by one complete test pass, the epoch index runs
\* 0..maxEpoch-1, and for maxEpoch = 0 no pass is run.
C13_TerminatesAfterMaxEpochs ==
    /\ <>(dpc = "done")
    /\ [](Running =>
            LET trainBatches == BatchesPerPass(dargs.numTrainModels, dargs.batchSize)
                testBatches == BatchesPerPass(dargs.numTestModels, 1)
                inEpoch == dpc \in {"train", "trained", "test"}
            IN  /\ drv.epoch <= dargs.maxEpoch
                /\ inEpoch => drv.epoch < dargs.maxEpoch
                /\ outp.testLines = drv.epoch
                /\ outp.epochLines = drv.epoch + (IF dpc \in {"trained", "test"} THEN 1 ELSE 0)
                /\ dpc = "train" => obs.testDone = 0
                /\ dpc \in {"trained", "test"} => obs.trainDone = trainBatches
                /\ (dpc \in {"epochs", "done"} /\ drv.epoch > 0) =>
                      (obs.trainDone = trainBatches /\ obs.testDone = testBatches)
                /\ dpc = "done" =>
                      /\ drv.epoch = dargs.maxEpoch
                      /\ drv.step = dargs.maxEpoch * trainBatches
                      /\ dargs.maxEpoch = 0 => (obs.trainDone = 0 /\ obs.testDone = 0))

C13_Witness ==
    /\ dpc = "done"
    /\ dargs.maxEpoch = 2
    /\ dargs.numTrainModels = 3
    /\ dargs.batchSize = 2
    /\ drv.step = 4
    /\ outp.testLines = 2

\* C19: every read of the accuracy accumulator covers exactly the batches since the
\* most recent reset: a "Step" record's accuracy is that of the 10 training batches
\* before it in the same epoch, and the test accuracy of an epoch is that of the
\* epoch's test batches only, with no training batch and no earlier epoch in it.
C19_AccuracyWindows ==
    /\ (dpc = "train" /\ obs.justLogged) =>
          /\ outp.lastLine.kind = "step"
          /\ outp.lastLine.total = obs.winTotal
          /\ outp.lastLine.count = obs.winCount
    /\ (dpc \in {"epochs", "done"} /\ drv.epoch > 0) =>
          /\ outp.lastLine.kind = "test"
          /\ outp.lastLine.total = obs.testTotal
          /\ outp.lastLine.count = obs.testCount
          /\ obs.testCount = dargs.numTestModels

C19_Witness ==
    /\ dpc = "epochs"
    /\ drv.epoch = 2
    /\ dargs.numTrainModels = 21
    /\ dargs.batchSize = 1
    /\ outp.stepRecords = 4
    /\ obs.winCount = 1
    /\ outp.lastLine.kind = "test"
    /\ outp.lastLine.count = 2
    /\ outp.lastLine.total = 1

\* ------------------------------------------------------------------
\* Claims about the operator binding module (SpecOps)

Product(g, x) == [i \in 1..Len(g) |-> g[i] * x[i]]

\* C14: backward of mymuladd returns a triple: g*b elementwise when a gradient for
\* a was requested and None otherwise; g*a elementwise when a gradient for b was
\* requested and None otherwise; None for c, always.
C14_BackwardGradients ==
    opc = "backwarded" =>
        LET g == oret.grad.data
            wantA == oargs.needs_input_grad[1]
            wantB == oargs.needs_input_grad[2]
        IN  /\ Len(oret.grads) = 3
            /\ oret.grads[1] = (IF wantA THEN Tensor(Product(g, oargs.b.data)) ELSE None)
            /\ oret.grads[2] = (IF wantB THEN Tensor(Product(g, oargs.a.data)) ELSE None)
            /\ oret.grads[3] = None

C14_Witness ==
    /\ opc = "backwarded"
    /\ oargs.needs_input_grad = <<TRUE, FALSE, FALSE>>
    /\ oargs.a.data = <<2, 2>>
    /\ oargs.b.data = <<-1, 2>>
    /\ oret.grad.data = <<2, -1>>
    /\ oret.grads[1].data = <<-2, -2>>
    /\ oret.grads[2] = None

\* C15: the abstract kernel of compute_aabb returns, for N points and batch size B,
\* a pair (aabbMin, aabbMax) of shapes B x 3 each, also when N # B.
C15_FakeAabbShapeIsPerBatchEntry ==
    opc # "idle" =>
        \A i \in 1..Len(oret.fake) :
            /\ oret.fake[i].shapes[1] = <<oret.fake[i].B, 3>>
            /\ oret.fake[i].shapes[2] = <<oret.fake[i].B, 3>>

\* C17: every operator the builders import from pt_mcc.ops is provided by it under
\* that name, so loading the builder module never fails on a missing operator.
C17_BuilderOperatorsProvided ==
    opc # "idle" => oret.builder # "ImportError"

\* C21: b is saved for backward if and only if a gradient for a was requested, a if
\* and only if a gradient for b was requested; backward reads the saved pair in the
\* (a, b) order it was saved in, so it never multiplies the upstream gradient by an
\* operand that was not retained and never computes a gradient that was not
\* requested.
C21_SavedOnlyWhatIsNeeded ==
    opc \in {"forwarded", "backwarded"} =>
        LET wantA == oargs.needs_input_grad[1]
            wantB == oargs.needs_input_grad[2]
        IN  /\ octx.saved_tensors[1] = (IF wantB THEN oargs.a ELSE None)
            /\ octx.saved_tensors[2] = (IF wantA THEN oargs.b ELSE None)
            /\ opc = "backwarded" =>
                  /\ \A i \in 1..3 : ~oret.grads[i].err
                  /\ oret.grads[1].isNone <=> ~wantA
                  /\ oret.grads[2].isNone <=> ~wantB
                  /\ oret.grads[3].isNone

C21_Witness ==
    /\ opc = "backwarded"
    /\ oargs.needs_input_grad = <<FALSE, TRUE, FALSE>>
    /\ oargs.a.data = <<-1, 2>>
    /\ oargs.b.data = <<2, 2>>
    /\ octx.saved_tensors = <<Tensor(<<-1, 2>>), None>>
    /\ oret.grads[1] = None
    /\ ~oret.grads[2].isNone

\* C22: a test pass never runs the optimizer step: across every test pass the
\* driver's step counter, the optimizer's global step, the learning rate and the
\* trainable parameters are unchanged, and the step counter after epoch e's
\* training pass is the number of training batches processed in epochs 0..e.
C22_TestPassLeavesTrainingState ==
    /\ [][(dpc = "trained" \/ dpc = "test") =>
            (/\ drv'.step = drv.step
             /\ sess'.global_step = sess.global_step
             /\ sess'.learningRate = sess.learningRate
             /\ sess'.weights = sess.weights)]_vars
    /\ [](dpc \in {"trained", "test"} =>
            /\ drv.step = obs.trainedTotal
            /\ sess.weights = obs.trainedTotal)

C22_Witness ==
    /\ dpc = "test"
    /\ drv.epoch = 1
    /\ obs.testDone = 2
    /\ dargs.numTrainModels = 3
    /\ dargs.batchSize = 2
    /\ drv.step = 4
    /\ sess.weights = 4

====
